-------------------------------- MODULE Spec2Model --------------------------------
(***************************************************************************)
(* Model of the Mermaid renderer of framework.visualization                *)
(* (src/core/framework/visualization/mermaid_renderer.py).                 *)
(*                                                                         *)
(* Text is modelled as a sequence of one-character strings, so that        *)
(* len(), slicing, str.replace() and "\n".join() are computed character by *)
(* character as the code computes them.  An optional value (None or a      *)
(* value) is the empty sequence or a one-element sequence.                 *)
(***************************************************************************)
EXTENDS Integers, Sequences, FiniteSets, TLC

VARIABLES
    graphs,     \* the GraphSpec objects the caller holds, by name
    renderers,  \* the MermaidRenderer objects: <<>> before construction, <<self>> after
    ctorArg,    \* the direction argument each constructor call was given (<<>>: omitted)
    log,        \* the render calls made so far, in order, with what each returned
    callsLeft,  \* how many more render calls the caller makes
    frames,     \* per thread, the render call it runs statement by statement
    buffers     \* per thread, the list `lines` of its render call

vars == <<graphs, renderers, ctorArg, log, callsLeft, frames, buffers>>

-----------------------------------------------------------------------------
(* Bounds of the model.                                                    *)
MaxNodes == 2
MaxEdges == 2
MaxRoutes == 2
MaxExprLen == 26
MaxCalls == 3

-----------------------------------------------------------------------------
(* Characters and literal text of the source.                              *)
DQ == "\""
SQ == "'"
NL == <<"\n">>
None == <<>>
Some(v) == <<v>>

StyleNode ==
    <<"f", "i", "l", "l", ":", "#", "f", "f", "f", ",", "s", "t", "r", "o", "k", "e", ":",
      "#", "3", "3", "3", ",", "s", "t", "r", "o", "k", "e", "-", "w", "i", "d", "t", "h",
      ":", "1", "p", "x", ",", "c", "o", "l", "o", "r", ":", "#", "3", "3", "3">>
StyleEntry ==
    <<"f", "i", "l", "l", ":", "#", "e", "3", "f", "2", "f", "d", ",", "s", "t", "r", "o",
      "k", "e", ":", "#", "2", "1", "9", "6", "f", "3", ",", "s", "t", "r", "o", "k", "e",
      "-", "w", "i", "d", "t", "h", ":", "2", "p", "x", ",", "c", "o", "l", "o", "r", ":",
      "#", "0", "d", "4", "7", "a", "1">>
StyleTerminal ==
    <<"f", "i", "l", "l", ":", "#", "f", "b", "e", "9", "e", "7", ",", "s", "t", "r", "o",
      "k", "e", ":", "#", "f", "f", "5", "7", "2", "2", ",", "s", "t", "r", "o", "k", "e",
      "-", "w", "i", "d", "t", "h", ":", "2", "p", "x", ",", "c", "o", "l", "o", "r", ":",
      "#", "b", "f", "3", "6", "0", "c">>
StylePause ==
    <<"f", "i", "l", "l", ":", "#", "f", "f", "f", "8", "e", "1", ",", "s", "t", "r", "o",
      "k", "e", ":", "#", "f", "f", "c", "1", "0", "7", ",", "s", "t", "r", "o", "k", "e",
      "-", "w", "i", "d", "t", "h", ":", "2", "p", "x", ",", "s", "t", "r", "o", "k", "e",
      "-", "d", "a", "s", "h", "a", "r", "r", "a", "y", ":", " ", "5", " ", "5", ",", "c",
      "o", "l", "o", "r", ":", "#", "f", "f", "6", "f", "0", "0">>
StyleRouter ==
    <<"f", "i", "l", "l", ":", "#", "f", "3", "e", "5", "f", "5", ",", "s", "t", "r", "o",
      "k", "e", ":", "#", "9", "c", "2", "7", "b", "0", ",", "s", "t", "r", "o", "k", "e",
      "-", "w", "i", "d", "t", "h", ":", "1", "p", "x", ",", "s", "h", "a", "p", "e", ":",
      "r", "h", "o", "m", "b", "u", "s", ",", "c", "o", "l", "o", "r", ":", "#", "4", "a",
      "1", "4", "8", "c">>
HeaderPrefix == <<"g", "r", "a", "p", "h", " ">>
ClassDefProcessing ==
    <<" ", " ", " ", " ", "c", "l", "a", "s", "s", "D", "e", "f", " ", "p", "r", "o", "c",
      "e", "s", "s", "i", "n", "g", " ">>
ClassDefEntry ==
    <<" ", " ", " ", " ", "c", "l", "a", "s", "s", "D", "e", "f", " ", "e", "n", "t", "r",
      "y", " ">>
ClassDefTerminal ==
    <<" ", " ", " ", " ", "c", "l", "a", "s", "s", "D", "e", "f", " ", "t", "e", "r", "m",
      "i", "n", "a", "l", " ">>
ClassDefPause ==
    <<" ", " ", " ", " ", "c", "l", "a", "s", "s", "D", "e", "f", " ", "p", "a", "u", "s",
      "e", " ">>
ClassDefRouter ==
    <<" ", " ", " ", " ", "c", "l", "a", "s", "s", "D", "e", "f", " ", "r", "o", "u", "t",
      "e", "r", " ">>
Indent == <<" ", " ", " ", " ">>
ClassSep == <<":", ":", ":">>
ArrowPlain == <<"-", "-", ">">>
ArrowFailed == <<"-", ".", "-", ">", "|", "f", "a", "i", "l", "e", "d", "|">>
ArrowLlm ==
    <<"-", ".", "-", ">", "|", "l", "l", "m", " ", "d", "e", "c", "i", "s", "i", "o", "n",
      "|">>
CondOpen == <<"-", "-", " ", "\"">>
CondClose == <<"\"", " ", "-", "-", ">">>
RouteOpen == <<" ", "-", "-", " ", "\"">>
RouteClose == <<"\"", " ", "-", "-", ">", " ">>
Ellipsis == <<".", ".", ".">>
Unknown == <<"?">>
DefaultDirection == <<"T", "D">>
ClsProcessing == <<"p", "r", "o", "c", "e", "s", "s", "i", "n", "g">>
ClsEntry == <<"e", "n", "t", "r", "y">>
ClsTerminal == <<"t", "e", "r", "m", "i", "n", "a", "l">>
ClsPause == <<"p", "a", "u", "s", "e">>
ClsRouter == <<"r", "o", "u", "t", "e", "r">>
IdStart == <<"s", "t", "a", "r", "t">>
IdEnd == <<"e", "n", "d">>
IdRouter == <<"r", "o", "u", "t", "e", "r">>
IdNodeYes == <<"n", "o", "d", "e", "_", "y", "e", "s">>
IdNodeNo == <<"n", "o", "d", "e", "_", "n", "o">>
NameStartNode == <<"S", "t", "a", "r", "t", " ", "N", "o", "d", "e">>
NameEndNode == <<"E", "n", "d", " ", "N", "o", "d", "e">>
NameStart == <<"S", "t", "a", "r", "t">>
NameMyRouter == <<"M", "y", " ", "R", "o", "u", "t", "e", "r">>
KeyYes == <<"y", "e", "s">>
KeyNo == <<"n", "o">>

-----------------------------------------------------------------------------
(* The pieces of Python the renderer relies on.                            *)

\* str.replace(old, new) for one-character old and new: every occurrence.
replace(s, old, new) == [i \in 1..Len(s) |-> IF s[i] = old THEN new ELSE s[i]]

\* "\n".join(lines)
RECURSIVE join(_)
join(ls) ==
    IF Len(ls) = 0 THEN <<>>
    ELSE IF Len(ls) = 1 THEN ls[1]
    ELSE ls[1] \o NL \o join(Tail(ls))

\* Truthiness of an optional string: None and "" are falsy.
truthy(opt) == opt # None /\ Len(opt[1]) > 0

-----------------------------------------------------------------------------
(* MermaidRenderer.__init__                                                *)

\* self._styles as __init__ builds it
StyleTable ==
    [node |-> StyleNode, entry |-> StyleEntry, terminal |-> StyleTerminal,
     pause |-> StylePause, router |-> StyleRouter]

\* as MermaidRenderer, but a direction outside TD, LR, BT, RL falls back to "TD"
MermaidRenderer_validating(direction) ==
    [direction |-> IF direction \in {<<"T", "D">>, <<"L", "R">>, <<"B", "T">>, <<"R", "L">>}
                   THEN direction ELSE DefaultDirection,
     _styles |-> StyleTable]

\* The object __init__ leaves behind, given its direction argument.
MermaidRenderer(direction) == [direction |-> direction, _styles |-> StyleTable]

-----------------------------------------------------------------------------
(* MermaidRenderer._render_node                                            *)

\* as NodeShape, but the router test comes before the pause test
NodeShape_routerBeforePause(node, graph) ==
    IF node.id = graph.entry_node
    THEN [style_class |-> ClsEntry, shape_open |-> <<"(", "(">>, shape_close |-> <<")", ")">>]
    ELSE IF node.id \in graph.terminal_nodes
    THEN [style_class |-> ClsTerminal, shape_open |-> <<"(", "[">>, shape_close |-> <<"]", ")">>]
    ELSE IF node.node_type = "router"
    THEN [style_class |-> ClsRouter, shape_open |-> <<"{">>, shape_close |-> <<"}">>]
    ELSE IF node.id \in graph.pause_nodes
    THEN [style_class |-> ClsPause, shape_open |-> <<"{", "{">>, shape_close |-> <<"}", "}">>]
    ELSE [style_class |-> ClsProcessing, shape_open |-> <<"[">>, shape_close |-> <<"]">>]

\* shape_open, shape_close and style_class: the if/elif chain
NodeShape(node, graph) ==
    IF node.id = graph.entry_node
    THEN [style_class |-> ClsEntry, shape_open |-> <<"(", "(">>, shape_close |-> <<")", ")">>]
    ELSE IF node.id \in graph.terminal_nodes
    THEN [style_class |-> ClsTerminal, shape_open |-> <<"(", "[">>, shape_close |-> <<"]", ")">>]
    ELSE IF node.id \in graph.pause_nodes
    THEN [style_class |-> ClsPause, shape_open |-> <<"{", "{">>, shape_close |-> <<"}", "}">>]
    ELSE IF node.node_type = "router"
    THEN [style_class |-> ClsRouter, shape_open |-> <<"{">>, shape_close |-> <<"}">>]
    ELSE [style_class |-> ClsProcessing, shape_open |-> <<"[">>, shape_close |-> <<"]">>]

\* as SanitizeLabel, but only the first double quote is replaced
SanitizeLabel_firstOnly(name) ==
    [i \in 1..Len(name) |->
        IF name[i] = DQ /\ \A k \in 1..(i - 1) : name[k] # DQ THEN SQ ELSE name[i]]

\* label = node.name.replace('"', "'")
SanitizeLabel(name) == replace(name, DQ, SQ)

_render_node(node, graph) ==
    LET shape == NodeShape(node, graph)
        label == SanitizeLabel(node.name)
    IN  Indent \o node.id \o shape.shape_open \o <<DQ>> \o label \o <<DQ>>
            \o shape.shape_close \o ClassSep \o shape.style_class

-----------------------------------------------------------------------------
(* MermaidRenderer._render_edge                                            *)

\* as ExprOrUnknown, but only None is replaced: the empty string is kept
ExprOrUnknown_noneOnly(condition_expr) ==
    IF condition_expr # None THEN condition_expr[1] ELSE Unknown

\* expr = edge.condition_expr or "?"
ExprOrUnknown(condition_expr) ==
    IF truthy(condition_expr) THEN condition_expr[1] ELSE Unknown

\* as Truncate, but an expression of exactly 20 characters is cut too
Truncate_from20(expr) ==
    IF Len(expr) >= 20 THEN SubSeq(expr, 1, 17) \o Ellipsis ELSE expr

\* if len(expr) > 20: expr = expr[:17] + "..."
Truncate(expr) ==
    IF Len(expr) > 20 THEN SubSeq(expr, 1, 17) \o Ellipsis ELSE expr

\* as EdgeArrow, but the failure and llm-decision arrows are exchanged
EdgeArrow_exchanged(edge) ==
    IF edge.condition = "ON_SUCCESS" THEN ArrowPlain
    ELSE IF edge.condition = "ON_FAILURE" THEN ArrowLlm
    ELSE IF edge.condition = "CONDITIONAL"
    THEN CondOpen \o Truncate(ExprOrUnknown(edge.condition_expr)) \o CondClose
    ELSE IF edge.condition = "LLM_DECIDE" THEN ArrowFailed
    ELSE ArrowPlain

\* arrow: the if/elif chain over edge.condition; no branch taken leaves "-->"
EdgeArrow(edge) ==
    IF edge.condition = "ON_SUCCESS" THEN ArrowPlain
    ELSE IF edge.condition = "ON_FAILURE" THEN ArrowFailed
    ELSE IF edge.condition = "CONDITIONAL"
    THEN CondOpen \o Truncate(ExprOrUnknown(edge.condition_expr)) \o CondClose
    ELSE IF edge.condition = "LLM_DECIDE" THEN ArrowLlm
    ELSE ArrowPlain

\* as _render_edge, but the label made of the description follows the arrow
_render_edge_withLabel(edge) ==
    LET arrow == EdgeArrow(edge)
        label == IF truthy(edge.description)
                 THEN <<"|">> \o edge.description[1] \o <<"|">>
                 ELSE <<>>
    IN  Indent \o edge.source \o <<" ">> \o arrow \o label \o <<" ">> \o edge.target

\* label is assigned from edge.description and never used in the returned text
_render_edge(edge) ==
    LET arrow == EdgeArrow(edge)
        label == IF truthy(edge.description)
                 THEN <<"|">> \o edge.description[1] \o <<"|">>
                 ELSE <<>>
    IN  Indent \o edge.source \o <<" ">> \o arrow \o <<" ">> \o edge.target

-----------------------------------------------------------------------------
(* MermaidRenderer.render                                                  *)

\* as NodeRouteLines, but the branches are taken last to first
NodeRouteLines_reversed(node) ==
    [k \in 1..Len(node.routes) |->
        Indent \o node.id \o RouteOpen \o node.routes[Len(node.routes) + 1 - k].key
            \o RouteClose \o node.routes[Len(node.routes) + 1 - k].target]

\* for condition, target in node.routes.items(): one synthetic edge each
NodeRouteLines(node) ==
    [k \in 1..Len(node.routes) |->
        Indent \o node.id \o RouteOpen \o node.routes[k].key \o RouteClose
            \o node.routes[k].target]

\* as RouteLines, but without the test of node.node_type
RECURSIVE RouteLines_anyType(_)
RouteLines_anyType(nodes) ==
    IF Len(nodes) = 0 THEN <<>>
    ELSE (IF Len(Head(nodes).routes) > 0
          THEN NodeRouteLines(Head(nodes))
          ELSE <<>>) \o RouteLines_anyType(Tail(nodes))

\* for node in graph.nodes: if node.node_type == "router" and node.routes: ...
RECURSIVE RouteLines(_)
RouteLines(nodes) ==
    IF Len(nodes) = 0 THEN <<>>
    ELSE (IF Head(nodes).node_type = "router" /\ Len(Head(nodes).routes) > 0
          THEN NodeRouteLines(Head(nodes))
          ELSE <<>>) \o RouteLines(Tail(nodes))

\* as RenderLines, but without the blank line between the nodes and the edges
RenderLines_noSeparator(self, graph) ==
    <<HeaderPrefix \o self.direction,
      ClassDefProcessing \o self._styles["node"] \o <<";">>,
      ClassDefEntry \o self._styles["entry"] \o <<";">>,
      ClassDefTerminal \o self._styles["terminal"] \o <<";">>,
      ClassDefPause \o self._styles["pause"] \o <<";">>,
      ClassDefRouter \o self._styles["router"] \o <<";">>,
      <<>> >>
    \o [i \in 1..Len(graph.nodes) |-> _render_node(graph.nodes[i], graph)]
    \o [j \in 1..Len(graph.edges) |-> _render_edge(graph.edges[j])]
    \o RouteLines(graph.nodes)

\* the list `lines` as render builds it
RenderLines(self, graph) ==
    <<HeaderPrefix \o self.direction,
      ClassDefProcessing \o self._styles["node"] \o <<";">>,
      ClassDefEntry \o self._styles["entry"] \o <<";">>,
      ClassDefTerminal \o self._styles["terminal"] \o <<";">>,
      ClassDefPause \o self._styles["pause"] \o <<";">>,
      ClassDefRouter \o self._styles["router"] \o <<";">>,
      <<>> >>
    \o [i \in 1..Len(graph.nodes) |-> _render_node(graph.nodes[i], graph)]
    \o << <<>> >>
    \o [j \in 1..Len(graph.edges) |-> _render_edge(graph.edges[j])]
    \o RouteLines(graph.nodes)

\* as render, but a graph whose entry node is not among its nodes is refused
render_validating(self, graph) ==
    IF /\ {"node", "entry", "terminal", "pause", "router"} \subseteq DOMAIN self._styles
       /\ \E i \in 1..Len(graph.nodes) : graph.nodes[i].id = graph.entry_node
    THEN LET lines == RenderLines(self, graph)
         IN  [raised |-> FALSE, lines |-> lines, text |-> join(lines)]
    ELSE [raised |-> TRUE, lines |-> <<>>, text |-> <<>>]

\* What a call of render comes to: the text it returns, or an exception
\* (a subscript of self._styles with a key it does not hold raises KeyError).
render(self, graph) ==
    IF {"node", "entry", "terminal", "pause", "router"} \subseteq DOMAIN self._styles
    THEN LET lines == RenderLines(self, graph)
         IN  [raised |-> FALSE, lines |-> lines, text |-> join(lines)]
    ELSE [raised |-> TRUE, lines |-> <<>>, text |-> <<>>]

-----------------------------------------------------------------------------
(* The graph model: the fields of NodeSpec, EdgeSpec and GraphSpec that    *)
(* the renderer reads.                                                     *)

Route(key, target) == [key |-> key, target |-> target]

\* NodeSpec: routes is the dict in insertion order, as a sequence of items
Node(id, name, node_type, routes) ==
    [id |-> id, name |-> name, node_type |-> node_type, routes |-> routes]

\* EdgeSpec: condition_expr and description are optional strings
Edge(source, target, condition, condition_expr, description) ==
    [source |-> source, target |-> target, condition |-> condition,
     condition_expr |-> condition_expr, description |-> description]

Graph(entry_node, terminal_nodes, pause_nodes, nodes, edges) ==
    [entry_node |-> entry_node, terminal_nodes |-> terminal_nodes,
     pause_nodes |-> pause_nodes, nodes |-> nodes, edges |-> edges]

-----------------------------------------------------------------------------
(* The graphs and directions the model draws from.                         *)

SeqUpTo(S, n) == UNION {[1..k -> S] : k \in 0..n}

IdA == <<"a">>
IdB == <<"b", "2">>
IdZ == <<"z">>          \* never the id of a node: a dangling reference
KeyY == <<"y">>
KeyN == <<"n", "o">>
KeyM == <<"m">>
KeyQ == <<"q", DQ>>      \* a branch label with a double quote in it
NamePlain == <<"S">>
NodeTypes == {"function", "router"}
EdgeConditions == {"ON_SUCCESS", "ON_FAILURE", "CONDITIONAL", "LLM_DECIDE"}
DirectionArgs == {<<"L", "R">>, <<"s", "i", "d", "e">>}

NamePool ==
    {<<>>, NamePlain, <<DQ>>, <<"H", "e", " ", DQ, "h", "i", DQ, SQ>>}

Digits == <<"0", "1", "2", "3", "4", "5", "6", "7", "8", "9">>
ExprOfLen(n) == [i \in 1..n |-> Digits[(i % 10) + 1]]

ExprPool ==
    {None, Some(<<>>), Some(KeyY), Some(<<"x", DQ, "y">>),
     Some([ExprOfLen(21) EXCEPT ![3] = DQ])}
        \cup {Some(ExprOfLen(n)) : n \in {20, 21, 25, MaxExprLen}}

\* dicts of at most MaxRoutes items: the keys of a dict are distinct
RoutesPool ==
    {rt \in SeqUpTo({Route(k, t) : k \in {KeyY, KeyN, KeyM, KeyQ}, t \in {IdB, IdZ}}, MaxRoutes) :
        \A i, j \in 1..Len(rt) : i # j => rt[i].key # rt[j].key}

\* nodes in every combination of roles; node ids may repeat within a graph
RoleGraphs ==
    {Graph(e, t, p, ns, <<>>) :
        e \in {IdA, IdZ},
        t \in {{}, {IdA, IdB}, {IdB, IdZ}},
        p \in {{}, {IdA}, {IdA, IdB}},
        ns \in SeqUpTo({Node(id, NamePlain, ty, rt) :
                            id \in {IdA, IdB}, ty \in NodeTypes,
                            rt \in {<<>>, <<Route(KeyY, IdB)>>}}, MaxNodes)}

\* node names with and without quote characters
LabelGraphs ==
    {Graph(e, {}, {}, ns, <<>>) :
        e \in {IdA, IdZ},
        ns \in SeqUpTo({Node(IdA, nm, "function", <<>>) : nm \in NamePool}, MaxNodes)}

EdgePool ==
    {Edge(IdA, t, c, None, None) :
        t \in {IdB, IdZ}, c \in EdgeConditions \ {"CONDITIONAL"}}
    \cup {Edge(IdA, IdB, "CONDITIONAL", x, None) : x \in ExprPool}
    \cup {Edge(IdA, IdB, c, Some(KeyY), d) :
            c \in {"ON_SUCCESS", "CONDITIONAL"}, d \in {Some(<<>>), Some(<<"d">>)}}

\* edges of every condition, expression length and description; no nodes
EdgeGraphs ==
    {Graph(IdZ, {}, {}, <<>>, es) : es \in SeqUpTo(EdgePool, MaxEdges)}

\* routers with every branch table, beside an edge that one branch repeats
RouterGraphs ==
    {Graph(IdZ, {}, {}, <<Node(IdA, NamePlain, ty, rt)>>, es) :
        ty \in NodeTypes, rt \in RoutesPool,
        es \in {<<>>, <<Edge(IdA, IdB, "CONDITIONAL", Some(KeyY), None)>>,
                 <<Edge(IdA, IdB, "CONDITIONAL", Some(<<>>), None),
                   Edge(IdA, IdB, "CONDITIONAL", Some(<<"x", DQ, "y">>), None)>>}}

\* nodes, edges and routes together, with dangling and repeated identifiers
MixedGraphs ==
    {Graph(e, {IdB}, {}, ns, es) :
        e \in {IdA, IdZ},
        ns \in SeqUpTo({Node(IdA, NamePlain, "router", <<Route(KeyY, IdB), Route(KeyN, IdZ)>>),
                        Node(IdB, NamePlain, "function", <<Route(KeyY, IdA)>>),
                        Node(IdB, <<DQ>>, "router", <<Route(KeyN, IdA)>>)}, MaxNodes),
        es \in SeqUpTo({Edge(IdA, IdB, "ON_SUCCESS", None, None),
                        Edge(IdA, IdB, "CONDITIONAL", Some(KeyY), None),
                        Edge(IdZ, IdA, "ON_FAILURE", None, None)}, MaxEdges)}

GraphPool ==
    RoleGraphs \cup LabelGraphs \cup EdgeGraphs \cup RouterGraphs \cup MixedGraphs

\* the graphs of tests/test_visualization.py, and the graph with nothing in it
GraphLinear ==
    Graph(IdStart, {IdEnd}, {},
          <<Node(IdStart, NameStartNode, "function", <<>>),
            Node(IdEnd, NameEndNode, "function", <<>>)>>,
          <<Edge(IdStart, IdEnd, "ON_SUCCESS", None, None)>>)

GraphRouter ==
    Graph(IdStart, {}, {},
          <<Node(IdStart, NameStart, "function", <<>>),
            Node(IdRouter, NameMyRouter, "router",
                 <<Route(KeyYes, IdNodeYes), Route(KeyNo, IdNodeNo)>>)>>,
          <<>>)

GraphEmpty == Graph(IdZ, {}, {}, <<>>, <<>>)

CallPool == {GraphLinear, GraphRouter, GraphEmpty}

-----------------------------------------------------------------------------
(* The operations.                                                         *)

\* renderer = MermaidRenderer(direction=d)
Construct(r, d) ==
    /\ renderers[r] = None
    /\ renderers' = [renderers EXCEPT ![r] = Some(MermaidRenderer(d))]
    /\ ctorArg' = [ctorArg EXCEPT ![r] = Some(d)]
    /\ UNCHANGED <<graphs, log, callsLeft, frames, buffers>>

\* renderer = MermaidRenderer(): the parameter's default is "TD"
ConstructDefault(r) ==
    /\ renderers[r] = None
    /\ renderers' = [renderers EXCEPT ![r] = Some(MermaidRenderer(DefaultDirection))]
    /\ ctorArg' = [ctorArg EXCEPT ![r] = None]
    /\ UNCHANGED <<graphs, log, callsLeft, frames, buffers>>

\* as Render, but `lines` is kept on the renderer and not emptied between calls
Render_keepsLines(r, g) ==
    /\ renderers[r] # None
    /\ callsLeft > 0
    /\ LET self == renderers[r][1]
           graph == graphs[g]
           out == render(self, graph)
           earlier == {i \in 1..Len(log) : log[i].renderer = r}
           kept == IF earlier = {} THEN <<>>
                   ELSE log[CHOOSE i \in earlier : \A k \in earlier : k <= i].lines
       IN  log' = Append(log, [renderer |-> r, slot |-> g, self |-> self, graph |-> graph,
                               raised |-> out.raised, lines |-> kept \o out.lines,
                               text |-> join(kept \o out.lines)])
    /\ callsLeft' = callsLeft - 1
    /\ UNCHANGED <<graphs, renderers, ctorArg, frames, buffers>>

\* as Render, but the branch tables of the graph are emptied while they are read
Render_consumesRoutes(r, g) ==
    /\ renderers[r] # None
    /\ callsLeft > 0
    /\ LET self == renderers[r][1]
           graph == graphs[g]
           out == render(self, graph)
       IN  /\ log' = Append(log, [renderer |-> r, slot |-> g, self |-> self,
                                  graph |-> graph, raised |-> out.raised,
                                  lines |-> out.lines, text |-> out.text])
           /\ graphs' = [graphs EXCEPT ![g].nodes =
                            [i \in 1..Len(graph.nodes) |->
                                [graph.nodes[i] EXCEPT !.routes = <<>>]]]
    /\ callsLeft' = callsLeft - 1
    /\ UNCHANGED <<renderers, ctorArg, frames, buffers>>

\* output = renderer.render(graph): reads self and graph, assigns to neither
Render(r, g) ==
    /\ renderers[r] # None
    /\ callsLeft > 0
    /\ LET self == renderers[r][1]
           graph == graphs[g]
           out == render(self, graph)
       IN  log' = Append(log, [renderer |-> r, slot |-> g, self |-> self, graph |-> graph,
                               raised |-> out.raised, lines |-> out.lines,
                               text |-> out.text])
    /\ callsLeft' = callsLeft - 1
    /\ UNCHANGED <<graphs, renderers, ctorArg, frames, buffers>>

Next ==
    \/ \E r \in DOMAIN renderers, d \in DirectionArgs : Construct(r, d)
    \/ \E r \in DOMAIN renderers : ConstructDefault(r)
    \/ \E r \in DOMAIN renderers, g \in DOMAIN graphs : Render(r, g)

\* One renderer, one graph out of the whole pool, one call.
Init ==
    /\ graphs \in [{"g1"} -> GraphPool]
    /\ renderers = [r \in {"r1"} |-> None]
    /\ ctorArg = [r \in {"r1"} |-> None]
    /\ log = <<>>
    /\ callsLeft = 1
    /\ frames = <<>>
    /\ buffers = <<>>

Spec == Init /\ [][Next]_vars

\* Two renderers and two graph objects, rendered in any order up to MaxCalls times.
InitCalls ==
    /\ graphs \in [{"g1", "g2"} -> CallPool]
    /\ renderers = [r \in {"r1", "r2"} |-> None]
    /\ ctorArg = [r \in {"r1", "r2"} |-> None]
    /\ log = <<>>
    /\ callsLeft = MaxCalls
    /\ frames = <<>>
    /\ buffers = <<>>

SpecCalls == InitCalls /\ [][Next]_vars

-----------------------------------------------------------------------------
(* render, statement by statement, in threads that run interleaved.        *)
(* A frame holds where its call stands: pc names the statement to run next *)
(* ("idle" before the call, "done" after the return), i and k count the    *)
(* iterations of the loops.                                                *)

\* as BufferOf, but `lines` is one list that all calls share
BufferOf_shared(t) ==
    CHOOSE u \in DOMAIN buffers : \A v \in DOMAIN buffers : u <= v

\* the list a call appends to: `lines` is a local variable of the call
BufferOf(t) == t

Self(t) == renderers[frames[t].renderer][1]
GraphOf(t) == graphs[frames[t].slot]

\* lines.append(line), and on to the next statement
Emit(t, line, pc, i, k) ==
    /\ buffers' = [buffers EXCEPT ![BufferOf(t)] = Append(@, line)]
    /\ frames' = [frames EXCEPT ![t].pc = pc, ![t].i = i, ![t].k = k]
    /\ UNCHANGED <<graphs, renderers, ctorArg, log, callsLeft>>

\* where the loop over the nodes starts, or what follows it when it is empty
AtNodes(graph) == IF Len(graph.nodes) > 0 THEN "nodes" ELSE "separator"
AtEdges(graph) == IF Len(graph.edges) > 0 THEN "edges" ELSE "routes"

\* renderer.render(graph) is called: lines = [f"graph {self.direction}"]
Begin(t, r) ==
    /\ frames[t].pc = "idle"
    /\ renderers[r] # None
    /\ buffers' = [buffers EXCEPT ![BufferOf(t)] = <<HeaderPrefix \o renderers[r][1].direction>>]
    /\ frames' = [frames EXCEPT
                    ![t].pc = "styles", ![t].renderer = r, ![t].k = 1,
                    ![t].overlapped =
                        \E u \in DOMAIN frames \ {t} : frames[u].pc \notin {"idle", "done"}]
    /\ UNCHANGED <<graphs, renderers, ctorArg, log, callsLeft>>

\* the five lines.append("    classDef ...") statements, one at a time
AppendStyle(t) ==
    /\ frames[t].pc = "styles"
    /\ LET k == frames[t].k
           line == CASE k = 1 -> ClassDefProcessing \o Self(t)._styles["node"] \o <<";">>
                     [] k = 2 -> ClassDefEntry \o Self(t)._styles["entry"] \o <<";">>
                     [] k = 3 -> ClassDefTerminal \o Self(t)._styles["terminal"] \o <<";">>
                     [] k = 4 -> ClassDefPause \o Self(t)._styles["pause"] \o <<";">>
                     [] k = 5 -> ClassDefRouter \o Self(t)._styles["router"] \o <<";">>
       IN  Emit(t, line, IF k = 5 THEN "blank" ELSE "styles", 1, k + 1)

\* lines.append("") after the style classes
AppendBlank(t) ==
    /\ frames[t].pc = "blank"
    /\ Emit(t, <<>>, AtNodes(GraphOf(t)), 1, 1)

\* for node in graph.nodes: lines.append(self._render_node(node, graph))
AppendNode(t) ==
    /\ frames[t].pc = "nodes"
    /\ LET graph == GraphOf(t)
           i == frames[t].i
       IN  Emit(t, _render_node(graph.nodes[i], graph),
                IF i = Len(graph.nodes) THEN "separator" ELSE "nodes", i + 1, 1)

\* lines.append("") before the edges
AppendSeparator(t) ==
    /\ frames[t].pc = "separator"
    /\ Emit(t, <<>>, AtEdges(GraphOf(t)), 1, 1)

\* for edge in graph.edges: lines.append(self._render_edge(edge))
AppendEdge(t) ==
    /\ frames[t].pc = "edges"
    /\ LET graph == GraphOf(t)
           i == frames[t].i
       IN  Emit(t, _render_edge(graph.edges[i]),
                IF i = Len(graph.edges) THEN "routes" ELSE "edges", i + 1, 1)

\* for node in graph.nodes: the test of node.node_type and node.routes fails
SkipNode(t) ==
    /\ frames[t].pc = "routes"
    /\ frames[t].i <= Len(GraphOf(t).nodes)
    /\ LET node == GraphOf(t).nodes[frames[t].i]
       IN  ~(node.node_type = "router" /\ Len(node.routes) > 0)
    /\ frames' = [frames EXCEPT ![t].i = @ + 1, ![t].k = 1]
    /\ UNCHANGED <<graphs, renderers, ctorArg, log, callsLeft, buffers>>

\* for condition, target in node.routes.items(): lines.append(...)
AppendRoute(t) ==
    /\ frames[t].pc = "routes"
    /\ frames[t].i <= Len(GraphOf(t).nodes)
    /\ LET node == GraphOf(t).nodes[frames[t].i]
           k == frames[t].k
       IN  /\ node.node_type = "router" /\ Len(node.routes) > 0
           /\ Emit(t, NodeRouteLines(node)[k], "routes",
                   IF k = Len(node.routes) THEN frames[t].i + 1 ELSE frames[t].i,
                   IF k = Len(node.routes) THEN 1 ELSE k + 1)

\* return "\n".join(lines)
Return(t) ==
    /\ frames[t].pc = "routes"
    /\ frames[t].i > Len(GraphOf(t).nodes)
    /\ frames' = [frames EXCEPT ![t].pc = "done", ![t].result = join(buffers[BufferOf(t)])]
    /\ UNCHANGED <<graphs, renderers, ctorArg, log, callsLeft, buffers>>

NextThreads ==
    \/ \E r \in DOMAIN renderers, d \in DirectionArgs : Construct(r, d)
    \/ \E r \in DOMAIN renderers : ConstructDefault(r)
    \/ \E t \in DOMAIN frames, r \in DOMAIN renderers : Begin(t, r)
    \/ \E t \in DOMAIN frames : AppendStyle(t)
    \/ \E t \in DOMAIN frames : AppendBlank(t)
    \/ \E t \in DOMAIN frames : AppendNode(t)
    \/ \E t \in DOMAIN frames : AppendSeparator(t)
    \/ \E t \in DOMAIN frames : AppendEdge(t)
    \/ \E t \in DOMAIN frames : SkipNode(t)
    \/ \E t \in DOMAIN frames : AppendRoute(t)
    \/ \E t \in DOMAIN frames : Return(t)

\* Two threads, each with a graph object of its own, and two renderers that
\* the threads may share.
InitThreads ==
    /\ graphs \in [{"g1", "g2"} -> CallPool]
    /\ renderers = [r \in {"r1", "r2"} |-> None]
    /\ ctorArg = [r \in {"r1", "r2"} |-> None]
    /\ log = <<>>
    /\ callsLeft = 0
    /\ frames = [t \in {1, 2} |->
                    [pc |-> "idle", renderer |-> "none",
                     slot |-> IF t = 1 THEN "g1" ELSE "g2",
                     i |-> 1, k |-> 1, overlapped |-> FALSE, result |-> <<>>]]
    /\ buffers = [t \in {1, 2} |-> <<>>]

SpecThreads == InitThreads /\ [][NextThreads]_vars

-----------------------------------------------------------------------------
(* What the properties below are stated with.                              *)

\* the render calls made so far
Calls == {log[i] : i \in 1..Len(log)}

IsPrefix(p, s) == Len(p) <= Len(s) /\ SubSeq(s, 1, Len(p)) = p
IsSuffix(p, s) == Len(p) <= Len(s) /\ SubSeq(s, Len(s) - Len(p) + 1, Len(s)) = p

\* how many characters of a newline-joined text precede item i of ls
RECURSIVE OffsetOf(_, _)
OffsetOf(ls, i) == IF i = 1 THEN 0 ELSE OffsetOf(ls, i - 1) + Len(ls[i - 1]) + 1

\* text is the items of ls in order with one newline between neighbours
IsNewlineJoined(text, ls) ==
    /\ Len(ls) > 0
    /\ Len(text) = OffsetOf(ls, Len(ls)) + Len(ls[Len(ls)])
    /\ \A i \in 1..Len(ls) :
        /\ SubSeq(text, OffsetOf(ls, i) + 1, OffsetOf(ls, i) + Len(ls[i])) = ls[i]
        /\ i > 1 => text[OffsetOf(ls, i)] = "\n"

\* the branch entries of the router nodes among the first i nodes
RECURSIVE BranchEntries(_, _)
BranchEntries(nodes, i) ==
    IF i = 0 THEN 0
    ELSE BranchEntries(nodes, i - 1)
            + (IF nodes[i].node_type = "router" THEN Len(nodes[i].routes) ELSE 0)

NodeCount(c) == Len(c.graph.nodes)
EdgeCount(c) == Len(c.graph.edges)
RouteCount(c) == BranchEntries(c.graph.nodes, Len(c.graph.nodes))

\* the lines of a call by section
NodeLine(c, i) == c.lines[7 + i]
EdgeLine(c, j) == c.lines[8 + NodeCount(c) + j]
RouteLine(c, k) == c.lines[8 + NodeCount(c) + EdgeCount(c) + k]

StyleClasses == {ClsProcessing, ClsEntry, ClsTerminal, ClsPause, ClsRouter}

-----------------------------------------------------------------------------
\* C1: every render returns the newline join of, in this order: the header
\* line, the five classDef lines for processing, entry, terminal, pause and
\* router, a blank line, one declaration line per node in node order, a blank
\* line, one line per edge in edge order, then the route lines; that is
\* 8 + |nodes| + |edges| + (branch entries of router nodes) lines.
C1_OutputLayout ==
    \A c \in Calls :
        /\ ~c.raised
        /\ IsNewlineJoined(c.text, c.lines)
        /\ Len(c.lines) = 8 + NodeCount(c) + EdgeCount(c) + RouteCount(c)
        /\ IsPrefix(HeaderPrefix, c.lines[1])
        /\ IsPrefix(ClassDefProcessing, c.lines[2]) /\ IsSuffix(<<";">>, c.lines[2])
        /\ IsPrefix(ClassDefEntry, c.lines[3]) /\ IsSuffix(<<";">>, c.lines[3])
        /\ IsPrefix(ClassDefTerminal, c.lines[4]) /\ IsSuffix(<<";">>, c.lines[4])
        /\ IsPrefix(ClassDefPause, c.lines[5]) /\ IsSuffix(<<";">>, c.lines[5])
        /\ IsPrefix(ClassDefRouter, c.lines[6]) /\ IsSuffix(<<";">>, c.lines[6])
        /\ c.lines[7] = <<>>
        /\ \A i \in 1..NodeCount(c) :
            /\ IsPrefix(Indent \o c.graph.nodes[i].id, NodeLine(c, i))
            /\ \E cls \in StyleClasses : IsSuffix(ClassSep \o cls, NodeLine(c, i))
        /\ c.lines[8 + NodeCount(c)] = <<>>
        /\ \A j \in 1..EdgeCount(c) :
            /\ IsPrefix(Indent \o c.graph.edges[j].source \o <<" ", "-">>, EdgeLine(c, j))
            /\ IsSuffix(<<" ">> \o c.graph.edges[j].target, EdgeLine(c, j))
        /\ \A k \in 1..RouteCount(c) :
            \E i \in 1..NodeCount(c) :
                /\ c.graph.nodes[i].node_type = "router"
                /\ IsPrefix(Indent \o c.graph.nodes[i].id \o RouteOpen, RouteLine(c, k))

\* a graph with two nodes, two edges and three branch entries was rendered
C1_Witness ==
    \E c \in Calls :
        NodeCount(c) = 2 /\ EdgeCount(c) = 2 /\ RouteCount(c) = 3 /\ Len(c.lines) = 15

-----------------------------------------------------------------------------
\* C2: the first line of every render is "graph " followed by the direction
\* the renderer was constructed with, whatever that is, and by "TD" when the
\* constructor was given none.
C2_HeaderIsDirection ==
    \A c \in Calls :
        LET arg == ctorArg[c.renderer]
            direction == IF arg = None THEN <<"T", "D">> ELSE arg[1]
        IN  /\ c.lines[1] = <<"g", "r", "a", "p", "h", " ">> \o direction
            /\ IsPrefix(<<"g", "r", "a", "p", "h", " ">> \o direction \o <<"\n">>, c.text)

\* a renderer constructed with a direction outside TD, LR, BT, RL has rendered
C2_Witness ==
    \E c \in Calls :
        /\ ctorArg[c.renderer] = Some(<<"s", "i", "d", "e">>)
        /\ c.lines[1] = <<"g", "r", "a", "p", "h", " ", "s", "i", "d", "e">>

-----------------------------------------------------------------------------
\* the delimiters and class the node takes, first match winning:
\* entry, then terminal, then pause, then router, then processing
ShapeByPrecedence(node, graph) ==
    CASE node.id = graph.entry_node -> <<<<"(", "(">>, <<")", ")">>, ClsEntry>>
      [] node.id # graph.entry_node /\ node.id \in graph.terminal_nodes
            -> <<<<"(", "[">>, <<"]", ")">>, ClsTerminal>>
      [] node.id # graph.entry_node /\ node.id \notin graph.terminal_nodes
            /\ node.id \in graph.pause_nodes
            -> <<<<"{", "{">>, <<"}", "}">>, ClsPause>>
      [] node.id # graph.entry_node /\ node.id \notin graph.terminal_nodes
            /\ node.id \notin graph.pause_nodes /\ node.node_type = "router"
            -> <<<<"{">>, <<"}">>, ClsRouter>>
      [] OTHER -> <<<<"[">>, <<"]">>, ClsProcessing>>

\* C3: each node has exactly one declaration line, `id open "label" close:::class`,
\* whose delimiters and class follow the precedence entry > terminal > pause >
\* router > processing, also when the node holds several roles at once.
C3_NodeShapePrecedence ==
    \A c \in Calls :
        /\ c.lines[7] = <<>> /\ c.lines[8 + NodeCount(c)] = <<>>
        /\ \A i \in 1..NodeCount(c) :
            LET node == c.graph.nodes[i]
                sh == ShapeByPrecedence(node, c.graph)
            IN  /\ IsPrefix(Indent \o node.id \o sh[1] \o <<DQ>>, NodeLine(c, i))
                /\ IsSuffix(<<DQ>> \o sh[2] \o ClassSep \o sh[3], NodeLine(c, i))
                /\ Len(NodeLine(c, i)) =
                        Len(Indent) + Len(node.id) + Len(sh[1]) + 1 + Len(node.name) + 1
                            + Len(sh[2]) + Len(ClassSep) + Len(sh[3])

\* a router node that is also entry, terminal and pause was drawn as entry,
\* next to a node that is terminal and pause and was drawn as terminal
C3_Witness ==
    \E c \in Calls :
        /\ NodeCount(c) = 2
        /\ c.graph.nodes[1].id = c.graph.entry_node
        /\ c.graph.nodes[1].id \in c.graph.terminal_nodes
        /\ c.graph.nodes[1].id \in c.graph.pause_nodes
        /\ c.graph.nodes[1].node_type = "router"
        /\ IsSuffix(ClassSep \o ClsEntry, NodeLine(c, 1))
        /\ c.graph.nodes[2].id # c.graph.entry_node
        /\ c.graph.nodes[2].id \in c.graph.terminal_nodes
        /\ c.graph.nodes[2].id \in c.graph.pause_nodes
        /\ IsSuffix(ClassSep \o ClsTerminal, NodeLine(c, 2))

-----------------------------------------------------------------------------
\* the arrow C4 as first stated gives an edge: a Conditional edge
\* that has a condition expression carries that expression itself
ArrowAsFirstStated(edge) ==
    CASE edge.condition = "ON_SUCCESS" -> <<"-", "-", ">">>
      [] edge.condition = "ON_FAILURE"
            -> <<"-", ".", "-", ">", "|", "f", "a", "i", "l", "e", "d", "|">>
      [] edge.condition = "CONDITIONAL"
            -> <<"-", "-", " ", DQ>>
                \o (IF edge.condition_expr = None THEN <<"?">> ELSE edge.condition_expr[1])
                \o <<DQ, " ", "-", "-", ">">>
      [] edge.condition = "LLM_DECIDE"
            -> <<"-", ".", "-", ">", "|", "l", "l", "m", " ", "d", "e", "c", "i", "s", "i",
                 "o", "n", "|">>

\* the label a Conditional edge displays: the expression when it has 1 to 20
\* characters, its first 17 characters and "..." when it has more, "?" when
\* it is absent or empty
DisplayedLabel(condition_expr) ==
    IF condition_expr = None \/ Len(condition_expr[1]) = 0 THEN <<"?">>
    ELSE IF Len(condition_expr[1]) <= 20 THEN condition_expr[1]
    ELSE SubSeq(condition_expr[1], 1, 17) \o <<".", ".", ".">>

ArrowAsAmended(edge) ==
    IF edge.condition = "CONDITIONAL"
    THEN <<"-", "-", " ", DQ>> \o DisplayedLabel(edge.condition_expr)
            \o <<DQ, " ", "-", "-", ">">>
    ELSE ArrowAsFirstStated(edge)

\* C4 as first stated: every edge line is `source <arrow> target`, the arrow
\* of a Conditional edge carrying the edge's condition expression.
C4_AsFirstStated ==
    \A c \in Calls : \A j \in 1..EdgeCount(c) :
        LET edge == c.graph.edges[j]
        IN  ~(edge.condition = "CONDITIONAL" /\ edge.condition_expr = None) =>
                EdgeLine(c, j) =
                    Indent \o edge.source \o <<" ">> \o ArrowAsFirstStated(edge) \o <<" ">>
                        \o edge.target

\* C4, amended: every declared edge has exactly one line `source <arrow> target`,
\* in edge order, source and target verbatim, with the arrow `-->` for OnSuccess,
\* `-.->|failed|` for OnFailure, `-.->|llm decision|` for LlmDecide and, for
\* Conditional, `-- "label" -->` where the label is the condition expression
\* when that has 1 to 20 characters, its first 17 characters followed by `...`
\* when it is longer, and `?` when it is absent or empty.
C4_EdgeArrowByCondition ==
    \A c \in Calls :
        /\ Len(c.lines) = 8 + NodeCount(c) + EdgeCount(c) + RouteCount(c)
        /\ c.lines[8 + NodeCount(c)] = <<>>
        /\ \A j \in 1..EdgeCount(c) :
            LET edge == c.graph.edges[j]
            IN  EdgeLine(c, j) =
                    Indent \o edge.source \o <<" ">> \o ArrowAsAmended(edge) \o <<" ">>
                        \o edge.target

\* an OnFailure edge and a Conditional edge with a short expression were
\* rendered, in that order
C4_Witness ==
    \E c \in Calls :
        /\ EdgeCount(c) = 2
        /\ c.graph.edges[1].condition = "ON_FAILURE"
        /\ c.graph.edges[1].target = IdZ
        /\ c.graph.edges[2].condition = "CONDITIONAL"
        /\ c.graph.edges[2].condition_expr = Some(<<"y">>)
        /\ EdgeLine(c, 1) =
            Indent \o IdA \o <<" ", "-", ".", "-", ">", "|", "f", "a", "i", "l", "e", "d", "|",
                               " ">> \o IdZ
        /\ EdgeLine(c, 2) =
            Indent \o IdA \o <<" ", "-", "-", " ", DQ, "y", DQ, " ", "-", "-", ">", " ">> \o IdB

-----------------------------------------------------------------------------
\* the text between the quotes of the line of Conditional edge j
LabelOfEdgeLine(c, j) ==
    LET edge == c.graph.edges[j]
        line == EdgeLine(c, j)
    IN  SubSeq(line, Len(Indent) + Len(edge.source) + 6, Len(line) - Len(edge.target) - 6)

ConditionalEdges(c) ==
    {j \in 1..EdgeCount(c) : c.graph.edges[j].condition = "CONDITIONAL"}

\* C5 as first stated: the label of a Conditional edge is its expression
\* unchanged when that has at most 20 characters, and its first 17 characters
\* followed by "..." when it has more.
C5_AsFirstStated ==
    \A c \in Calls : \A j \in ConditionalEdges(c) :
        LET expr == c.graph.edges[j].condition_expr
        IN  expr # None =>
                /\ Len(expr[1]) <= 20 => LabelOfEdgeLine(c, j) = expr[1]
                /\ Len(expr[1]) > 20 =>
                        LabelOfEdgeLine(c, j) = SubSeq(expr[1], 1, 17) \o <<".", ".", ".">>

\* C5, amended: the label of a Conditional edge is its expression unchanged
\* when that has 1 to 20 characters (20 included), its first 17 characters
\* followed by "..." when it has more than 20 (21 included), and "?" when the
\* expression is empty; the label never has more than 20 characters.
C5_LabelTruncation ==
    \A c \in Calls : \A j \in ConditionalEdges(c) :
        LET expr == c.graph.edges[j].condition_expr
            shown == LabelOfEdgeLine(c, j)
        IN  /\ Len(shown) <= 20
            /\ expr # None =>
                /\ Len(expr[1]) = 0 => shown = <<"?">>
                /\ Len(expr[1]) \in 1..20 => shown = expr[1]
                /\ Len(expr[1]) > 20 =>
                    /\ Len(shown) = 20
                    /\ SubSeq(shown, 1, 17) = SubSeq(expr[1], 1, 17)
                    /\ SubSeq(shown, 18, 20) = <<".", ".", ".">>

\* expressions of 21 and of 20 characters were rendered: the first cut to
\* 17 characters and "...", the second unchanged
C5_Witness ==
    \E c \in Calls :
        /\ EdgeCount(c) = 2
        /\ ConditionalEdges(c) = {1, 2}
        /\ c.graph.edges[1].condition_expr # None
        /\ Len(c.graph.edges[1].condition_expr[1]) = 21
        /\ LabelOfEdgeLine(c, 1) # c.graph.edges[1].condition_expr[1]
        /\ c.graph.edges[2].condition_expr # None
        /\ Len(c.graph.edges[2].condition_expr[1]) = 20
        /\ LabelOfEdgeLine(c, 2) = c.graph.edges[2].condition_expr[1]

-----------------------------------------------------------------------------
\* C6: a router node with n >= 1 branches gets exactly n lines
\* `id -- "key" --> target`, in the insertion order of its branch table; the
\* route lines follow all edge lines, routers in node order, and nothing is
\* dropped because a declared edge says the same.
C6_RouteLines ==
    \A c \in Calls :
        /\ Len(c.lines) = 8 + NodeCount(c) + EdgeCount(c) + RouteCount(c)
        /\ \A i \in 1..NodeCount(c) :
            LET node == c.graph.nodes[i]
            IN  node.node_type = "router" =>
                    \A k \in 1..Len(node.routes) :
                        RouteLine(c, BranchEntries(c.graph.nodes, i - 1) + k) =
                            Indent \o node.id \o <<" ", "-", "-", " ", DQ>>
                                \o node.routes[k].key
                                \o <<DQ, " ", "-", "-", ">", " ">> \o node.routes[k].target

\* two routers with two and one branches were rendered after an edge that
\* reads the same as the first router's first branch
C6_Witness ==
    \E c \in Calls :
        /\ NodeCount(c) = 2 /\ EdgeCount(c) >= 1
        /\ c.graph.nodes[1].node_type = "router" /\ Len(c.graph.nodes[1].routes) = 2
        /\ c.graph.nodes[2].node_type = "router" /\ Len(c.graph.nodes[2].routes) = 1
        /\ c.graph.nodes[1].id # c.graph.nodes[2].id
        /\ EdgeLine(c, 1) = RouteLine(c, 1)
        /\ RouteLine(c, 3) =
            Indent \o c.graph.nodes[2].id \o RouteOpen \o c.graph.nodes[2].routes[1].key
                \o RouteClose \o c.graph.nodes[2].routes[1].target

-----------------------------------------------------------------------------
\* where the label of the declaration line of node i starts
LabelStart(c, i) ==
    Len(Indent) + Len(c.graph.nodes[i].id)
        + Len(ShapeByPrecedence(c.graph.nodes[i], c.graph)[1]) + 2

\* C7: the label of a node line is the node's name with every double quote
\* replaced by a single quote and nothing else changed, added or removed; it
\* stands between two double quotes and holds none itself.
C7_LabelQuotes ==
    \A c \in Calls : \A i \in 1..NodeCount(c) :
        LET node == c.graph.nodes[i]
            sh == ShapeByPrecedence(node, c.graph)
            line == NodeLine(c, i)
            start == LabelStart(c, i)
        IN  /\ Len(line) = start + Len(node.name) + Len(sh[2]) + Len(ClassSep) + Len(sh[3])
            /\ line[start - 1] = DQ
            /\ line[start + Len(node.name)] = DQ
            /\ \A k \in 1..Len(node.name) :
                /\ line[start + k - 1] # DQ
                /\ line[start + k - 1] = (IF node.name[k] = DQ THEN SQ ELSE node.name[k])

\* a node named  He "hi"'  was rendered with the label  He 'hi''
C7_Witness ==
    \E c \in Calls : \E i \in 1..NodeCount(c) :
        /\ c.graph.nodes[i].name = <<"H", "e", " ", DQ, "h", "i", DQ, SQ>>
        /\ SubSeq(NodeLine(c, i), LabelStart(c, i), LabelStart(c, i) + 7)
                = <<"H", "e", " ", SQ, "h", "i", SQ, SQ>>

-----------------------------------------------------------------------------
-----------------------------------------------------------------------------
Constructed == {r \in DOMAIN renderers : renderers[r] # None}

\* C9: after any render calls each rendered graph, and the direction and style
\* table of each renderer that rendered, are what they were when the call was
\* made; the style table has five entries and is the same in every renderer.
C9_RenderChangesNothing ==
    /\ \A c \in Calls :
        /\ graphs[c.slot] = c.graph
        /\ renderers[c.renderer] = Some(c.self)
    /\ \A r \in Constructed : Cardinality(DOMAIN renderers[r][1]._styles) = 5
    /\ \A r1, r2 \in Constructed : renderers[r1][1]._styles = renderers[r2][1]._styles

\* two renderers of different directions have rendered two different graphs,
\* one of them with branch tables, three calls in all
C9_Witness ==
    /\ Len(log) >= 3
    /\ Constructed = {"r1", "r2"}
    /\ renderers["r1"][1].direction # renderers["r2"][1].direction
    /\ {c.renderer : c \in Calls} = {"r1", "r2"}
    /\ {c.slot : c \in Calls} = {"g1", "g2"}
    /\ graphs["g1"] = GraphRouter /\ graphs["g2"] = GraphLinear

-----------------------------------------------------------------------------
NodeIds(graph) == {graph.nodes[i].id : i \in 1..Len(graph.nodes)}

\* some identifier of the graph names no node, or two nodes share an id
BreaksIntegrity(graph) ==
    \/ graph.entry_node \notin NodeIds(graph)
    \/ ~(graph.terminal_nodes \subseteq NodeIds(graph))
    \/ ~(graph.pause_nodes \subseteq NodeIds(graph))
    \/ \E j \in 1..Len(graph.edges) :
        graph.edges[j].source \notin NodeIds(graph)
            \/ graph.edges[j].target \notin NodeIds(graph)
    \/ \E i \in 1..Len(graph.nodes) : \E k \in 1..Len(graph.nodes[i].routes) :
        graph.nodes[i].routes[k].target \notin NodeIds(graph)
    \/ \E i, k \in 1..Len(graph.nodes) : i # k /\ graph.nodes[i].id = graph.nodes[k].id

\* C10: a graph with dangling or repeated identifiers renders to text without
\* an error, with as many lines as any graph of its size, each edge line and
\* route line holding its source and target as given.
C10_RendersDespiteBrokenReferences ==
    \A c \in Calls :
        BreaksIntegrity(c.graph) =>
            /\ ~c.raised
            /\ Len(c.text) > 0
            /\ Len(c.lines) = 8 + NodeCount(c) + EdgeCount(c) + RouteCount(c)
            /\ \A j \in 1..EdgeCount(c) :
                /\ IsPrefix(Indent \o c.graph.edges[j].source \o <<" ">>, EdgeLine(c, j))
                /\ IsSuffix(<<" ">> \o c.graph.edges[j].target, EdgeLine(c, j))
            /\ \A i \in 1..NodeCount(c) :
                c.graph.nodes[i].node_type = "router" =>
                    \A k \in 1..Len(c.graph.nodes[i].routes) :
                        LET line == RouteLine(c, BranchEntries(c.graph.nodes, i - 1) + k)
                        IN  /\ IsPrefix(Indent \o c.graph.nodes[i].id \o <<" ">>, line)
                            /\ IsSuffix(<<" ">> \o c.graph.nodes[i].routes[k].target, line)

\* a graph was rendered whose entry and terminal ids, an edge source and two
\* branch targets name no node, and whose two nodes share an id
C10_Witness ==
    \E c \in Calls :
        /\ ~c.raised
        /\ c.graph.entry_node \notin NodeIds(c.graph)
        /\ ~(c.graph.terminal_nodes \subseteq NodeIds(c.graph))
        /\ NodeCount(c) = 2 /\ c.graph.nodes[1].id = c.graph.nodes[2].id
        /\ RouteCount(c) = 4
        /\ \A k \in {1, 2} : c.graph.nodes[1].routes[k].target \notin NodeIds(c.graph)
        /\ EdgeCount(c) = 2
        /\ c.graph.edges[1].source \notin NodeIds(c.graph)
        /\ c.graph.edges[2].target \notin NodeIds(c.graph)
        /\ Len(c.lines) = 16

-----------------------------------------------------------------------------
\* sub occurs in s as consecutive characters
Contains(s, sub) ==
    \E at \in 0..(Len(s) - Len(sub)) : SubSeq(s, at + 1, at + Len(sub)) = sub

\* C11: the description of an edge never reaches the output: edges that agree
\* on source, target, condition and condition expression have the same line
\* whatever their descriptions (absent, empty or text), and no line holds the
\* description between bars.
C11_DescriptionNotRendered ==
    \A c \in Calls : \A j \in 1..EdgeCount(c) :
        LET edge == c.graph.edges[j]
        IN  /\ edge.description # None /\ Len(edge.description[1]) > 0 =>
                ~Contains(EdgeLine(c, j), <<"|">> \o edge.description[1] \o <<"|">>)
            /\ \A m \in 1..EdgeCount(c) :
                (/\ c.graph.edges[m].source = edge.source
                 /\ c.graph.edges[m].target = edge.target
                 /\ c.graph.edges[m].condition = edge.condition
                 /\ c.graph.edges[m].condition_expr = edge.condition_expr)
                    => EdgeLine(c, m) = EdgeLine(c, j)

\* two Conditional edges alike but for the description, one without and one
\* with the description "d", were rendered to the same line
C11_Witness ==
    \E c \in Calls :
        /\ EdgeCount(c) = 2
        /\ c.graph.edges[1] = Edge(IdA, IdB, "CONDITIONAL", Some(KeyY), None)
        /\ c.graph.edges[2] = Edge(IdA, IdB, "CONDITIONAL", Some(KeyY), Some(<<"d">>))
        /\ EdgeLine(c, 1) = EdgeLine(c, 2)
        /\ EdgeLine(c, 2) =
            Indent \o IdA \o <<" ", "-", "-", " ", DQ, "y", DQ, " ", "-", "-", ">", " ">> \o IdB

-----------------------------------------------------------------------------
\* C13: a Conditional edge whose condition expression is absent or empty has
\* the line `source -- "?" --> target`; a condition expression and a branch
\* label stand between the double quotes as they are, a double quote inside
\* them included (of an expression of more than 20 characters, the 17 that
\* are shown).
C13_UnknownLabelAndVerbatimQuotes ==
    \A c \in Calls :
        /\ \A j \in ConditionalEdges(c) :
            LET edge == c.graph.edges[j]
                absent == edge.condition_expr = None \/ edge.condition_expr = Some(<<>>)
            IN  /\ absent =>
                    EdgeLine(c, j) =
                        Indent \o edge.source
                            \o <<" ", "-", "-", " ", DQ, "?", DQ, " ", "-", "-", ">", " ">>
                            \o edge.target
                /\ LabelOfEdgeLine(c, j) # <<>>
                /\ ~absent =>
                    \A p \in 1..Len(edge.condition_expr[1]) :
                        (Len(edge.condition_expr[1]) <= 20 \/ p <= 17) =>
                            EdgeLine(c, j)[Len(Indent) + Len(edge.source) + 5 + p]
                                = edge.condition_expr[1][p]
        /\ \A i \in 1..NodeCount(c) :
            LET node == c.graph.nodes[i]
            IN  node.node_type = "router" =>
                    \A k \in 1..Len(node.routes) :
                        LET line == RouteLine(c, BranchEntries(c.graph.nodes, i - 1) + k)
                            from == Len(Indent) + Len(node.id) + 5
                        IN  SubSeq(line, from + 1, from + Len(node.routes[k].key))
                                = node.routes[k].key

\* a router with the branch label  q"  was rendered after two Conditional
\* edges, one with the empty expression shown as ?, one with the expression
\* x"y  shown with its double quote
C13_Witness ==
    \E c \in Calls :
        /\ EdgeCount(c) = 2 /\ NodeCount(c) = 1 /\ RouteCount(c) >= 1
        /\ c.graph.edges[1].condition_expr = Some(<<>>)
        /\ LabelOfEdgeLine(c, 1) = <<"?">>
        /\ c.graph.edges[2].condition_expr = Some(<<"x", DQ, "y">>)
        /\ LabelOfEdgeLine(c, 2) = <<"x", DQ, "y">>
        /\ c.graph.nodes[1].routes[1].key = <<"q", DQ>>
        /\ RouteLine(c, 1) =
            Indent \o IdA \o <<" ", "-", "-", " ", DQ, "q", DQ, DQ, " ", "-", "-", ">", " ">>
                \o c.graph.nodes[1].routes[1].target

-----------------------------------------------------------------------------
\* the lines after the edge lines
RouteSection(c) ==
    SubSeq(c.lines, 9 + NodeCount(c) + EdgeCount(c), Len(c.lines))

\* the nodes whose role tag is router and whose branch table is not empty
BranchingRouters(c) ==
    {i \in 1..NodeCount(c) :
        c.graph.nodes[i].node_type = "router" /\ Len(c.graph.nodes[i].routes) > 0}

\* C14: route lines follow the role tag and the branch table alone: a router
\* drawn as entry, terminal or pause still has one line per branch, a node
\* that is no router has none even with branches, a router without branches
\* has none; and the class of every node line is one the style lines declare.
C14_RoutesByRoleTagOnly ==
    \A c \in Calls :
        /\ BranchingRouters(c) = {} => RouteSection(c) = <<>>
        /\ \A k \in 1..Len(RouteSection(c)) :
            \E i \in BranchingRouters(c) :
                /\ k > BranchEntries(c.graph.nodes, i - 1)
                /\ k <= BranchEntries(c.graph.nodes, i)
                /\ IsPrefix(Indent \o c.graph.nodes[i].id \o RouteOpen, RouteSection(c)[k])
        /\ \A i \in BranchingRouters(c) :
            /\ BranchEntries(c.graph.nodes, i) <= Len(RouteSection(c))
            /\ \A k \in 1..Len(c.graph.nodes[i].routes) :
                IsSuffix(RouteClose \o c.graph.nodes[i].routes[k].target,
                         RouteSection(c)[BranchEntries(c.graph.nodes, i - 1) + k])
        /\ \A i \in 1..NodeCount(c) :
            \E cls \in StyleClasses : \E k \in 2..6 :
                /\ IsSuffix(ClassSep \o cls, NodeLine(c, i))
                /\ IsPrefix(Indent \o <<"c", "l", "a", "s", "s", "D", "e", "f", " ">> \o cls
                                \o <<" ">>, c.lines[k])

\* a router that is the entry node was drawn as entry and has its route line;
\* the node after it, no router but with a branch, has none
C14_Witness ==
    \E c \in Calls :
        /\ NodeCount(c) = 2
        /\ c.graph.nodes[1].node_type = "router"
        /\ c.graph.nodes[1].id = c.graph.entry_node
        /\ Len(c.graph.nodes[1].routes) = 1
        /\ IsSuffix(ClassSep \o ClsEntry, NodeLine(c, 1))
        /\ c.graph.nodes[2].node_type = "function"
        /\ Len(c.graph.nodes[2].routes) = 1
        /\ Len(RouteSection(c)) = 1
        /\ IsPrefix(Indent \o c.graph.nodes[1].id \o RouteOpen, RouteSection(c)[1])

-----------------------------------------------------------------------------
\* the threads whose render call has returned
Returned == {t \in DOMAIN frames : frames[t].pc = "done"}

\* what the call of thread t returns when nothing else runs during it
AloneText(t) == render(Self(t), GraphOf(t)).text

=============================================================================
